---- MODULE Spec2Model ----
(***************************************************************************)
(* Model of txt-to-csv.py: the per-file conversion loop (normalise,        *)
(* segment, extract fields, save, cross-validate, report), and of the page *)
(* selection of pdf-page-remover.py.                                       *)
(*                                                                         *)
(* A text is a sequence of characters and a character is its code point,   *)
(* so that classes (digit, letter, whitespace) and lower-casing are        *)
(* computed as Python computes them on the ASCII range.                    *)
(***************************************************************************)
EXTENDS Integers, Sequences, FiniteSets, TLC

VARIABLES
    txt_files,            \* contents of the *.txt files of INPUT_DIR, in glob order
    file_no,              \* number of files the for loop has finished
    pc,                   \* position of the script that is run
    raw_text,             \* normalised text of the current file
    entries,              \* raw_text.strip().split("\n\n")
    idx,                  \* number of entries the entry loop has handled
    parsed_data,          \* rows [nim, fullname, email, phone, address]
    warnings_count,       \* the per-file warning total
    printed,              \* the WARNING lines printed by the entry loop
    total_line,           \* the "Total warnings for this file" line, if printed
    output_csv,           \* rows written to the CSV of the current file
    csv_readable,         \* whether open(csv_path) and the read succeeded
    txt_fullnames,        \* extract_fullnames_from_txt(raw_text) of the validator
    txt_fullnames_unique, \* candidate names after the duplicate filter
    missing_names,        \* validate_csv_against_txt(...)[0]
    total_txt,            \* validate_csv_against_txt(...)[1]
    total_csv,            \* validate_csv_against_txt(...)[2]
    report,               \* the validation report printed for the file
    results,              \* per finished file: the CSV in OUTPUT_DIR and what was printed
    norm_in,              \* input of the normaliser run on its own
    norm_out,             \* successive outputs of clean_text on norm_in
    page_spec,            \* pdf-page-remover.py: the page specification of the command line
    n_pages,              \* len(pdf_reader.pages) of the input PDF
    page_numbers,         \* what parse_page_spec(page_spec) gave, once called
    removed_pdf,          \* what remove_pages wrote, once called
    kept_pdf              \* what keep_pages wrote, once called

\* the variables of txt-to-csv.py but for the position
txt_vars == << txt_files, file_no, raw_text, entries, idx, parsed_data,
               warnings_count, printed, total_line, output_csv, csv_readable,
               txt_fullnames, txt_fullnames_unique, missing_names, total_txt,
               total_csv, report, results, norm_in, norm_out >>

\* the variables of pdf-page-remover.py
pdf_vars == << page_spec, n_pages, page_numbers, removed_pdf, kept_pdf >>

vars == << pc, txt_vars, pdf_vars >>

-----------------------------------------------------------------------------
(* Bounds of the model *)

\* number of fragments joined by line breaks into an input text
MaxItems == 3
\* number of lines after the name and identifier line in a single-block text
MaxTail == 3
\* length of the texts the normaliser is run on by itself
MaxCleanLen == 3
\* number of name-and-number lines in a text for the name scanner
MaxScan == 2
\* length of the page specifications
MaxSpecLen == 4
\* number of pages of the PDF
MaxPages == 2

-----------------------------------------------------------------------------
(* Characters *)

NL == 10        \* "\n"
SP == 32        \* " "
DOT == 46       \* "."
AT == 64        \* "@"
DASH == 45      \* "-"
SLASH == 47     \* "/"
COMMA == 44     \* ","
APOSTROPHE == 39
QUOTE == 34

Range(q) == {q[i] : i \in 1..Len(q)}

Min(S) == CHOOSE x \in S : \A y \in S : x <= y

\* str.isspace on the ASCII range
IsSpace(c) == c \in (9..13) \cup (28..32)
\* str.isdigit / \d on the ASCII range
IsDigit(c) == c \in 48..57
\* str.isalpha / [A-Za-z] on the ASCII range
IsAlpha(c) == c \in (65..90) \cup (97..122)

\* str.lower
lower(s) == [i \in 1..Len(s) |-> IF s[i] \in 65..90 THEN s[i] + 32 ELSE s[i]]

\* str.strip: from the first to the last character that is not whitespace
strip(s) ==
    LET ns == {i \in 1..Len(s) : ~IsSpace(s[i])}
    IN  IF ns = {} THEN << >>
        ELSE SubSeq(s,
                    CHOOSE i \in ns : \A j \in 1..(i - 1) : IsSpace(s[j]),
                    CHOOSE i \in ns : \A j \in (i + 1)..Len(s) : IsSpace(s[j]))

\* positions at which sub occurs in s
Occurrences(s, sub) ==
    {i \in 1..(Len(s) - Len(sub) + 1) : \A k \in 1..Len(sub) : s[i + k - 1] = sub[k]}

\* sub in s
Contains(s, sub) == Occurrences(s, sub) # {}

\* s.count(c) for a single character
count(s, c) == Cardinality({i \in 1..Len(s) : s[i] = c})

\* s.startswith(p), s.endswith(p)
startswith(s, p) == Len(s) >= Len(p) /\ SubSeq(s, 1, Len(p)) = p
endswith(s, p) == Len(s) >= Len(p) /\ SubSeq(s, Len(s) - Len(p) + 1, Len(s)) = p

\* s.split(sep), sep non-empty
RECURSIVE split(_, _)
split(s, sep) ==
    LET occ == Occurrences(s, sep)
    IN  IF occ = {} THEN << s >>
        ELSE LET i == Min(occ)
             IN  << SubSeq(s, 1, i - 1) >>
                 \o split(SubSeq(s, i + Len(sep), Len(s)), sep)

\* s.replace(old, new), old non-empty
RECURSIVE replace(_, _, _)
replace(s, old, new) ==
    LET occ == Occurrences(s, old)
    IN  IF occ = {} THEN s
        ELSE LET i == Min(occ)
             IN  SubSeq(s, 1, i - 1) \o new
                 \o replace(SubSeq(s, i + Len(old), Len(s)), old, new)

\* sep.join(parts)
RECURSIVE join(_, _)
join(parts, sep) ==
    IF parts = << >> THEN << >>
    ELSE IF Len(parts) = 1 THEN parts[1]
    ELSE parts[1] \o sep \o join(Tail(parts), sep)

RECURSIVE Flatten(_)
Flatten(ss) == IF ss = << >> THEN << >> ELSE ss[1] \o Flatten(Tail(ss))

-----------------------------------------------------------------------------
(* Text Normalizer *)

\* the characters clean_text substitutes: U+00D0, em dash, en dash, U+FFFD,
\* U+0092, U+0093, U+0094, U+0096, U+0097
Artifacts == {208, 8212, 8211, 65533, 146, 147, 148, 150, 151}

\* clean_text with U+0096 turned into an en dash instead of "-"
clean_text_endash(text) ==
    LET t1 == replace(text, << 208 >>, << DASH >>)
        t2 == replace(t1, << 8212 >>, << DASH >>)
        t3 == replace(t2, << 8211 >>, << DASH >>)
        t4 == replace(t3, << 65533 >>, << DASH >>)
        t5 == replace(t4, << 146 >>, << APOSTROPHE >>)
        t6 == replace(t5, << 147 >>, << QUOTE >>)
        t7 == replace(t6, << 148 >>, << QUOTE >>)
        t8 == replace(t7, << 150 >>, << 8211 >>)
        t9 == replace(t8, << 151 >>, << DASH >>)
    IN  t9

clean_text(text) ==
    LET t1 == replace(text, << 208 >>, << DASH >>)
        t2 == replace(t1, << 8212 >>, << DASH >>)
        t3 == replace(t2, << 8211 >>, << DASH >>)
        t4 == replace(t3, << 65533 >>, << DASH >>)
        t5 == replace(t4, << 146 >>, << APOSTROPHE >>)
        t6 == replace(t5, << 147 >>, << QUOTE >>)
        t7 == replace(t6, << 148 >>, << QUOTE >>)
        t8 == replace(t7, << 150 >>, << DASH >>)
        t9 == replace(t8, << 151 >>, << DASH >>)
    IN  t9

-----------------------------------------------------------------------------
(* Heuristic Name Scanner *)

\* [A-Za-z\s\.]
IsNameChar(c) == IsAlpha(c) \/ IsSpace(c) \/ c = DOT

\* number of consecutive characters of s from position i on that are in class
RECURSIVE NameRun(_, _)
NameRun(s, i) ==
    IF i > Len(s) \/ ~IsNameChar(s[i]) THEN 0 ELSE 1 + NameRun(s, i + 1)

\* number of consecutive digits of s from position i on
RECURSIVE DigitRun(_, _)
DigitRun(s, i) ==
    IF i > Len(s) \/ ~IsDigit(s[i]) THEN 0 ELSE 1 + DigitRun(s, i + 1)

\* shortest and longest digit run of the pattern, \d{8,10}
NimMinDigits == 8
NimMaxDigits == 10

\* ([A-Za-z][A-Za-z\s\.]+?)(\d{8,10}) matches at position i: a letter, then
\* one or more class characters (the lazy run is forced to be the whole run,
\* because the character after it must be a digit), then at least 8 digits
MatchesAt(s, i) ==
    /\ IsAlpha(s[i])
    /\ LET r == NameRun(s, i + 1)
       IN  r >= 1 /\ DigitRun(s, i + 1 + r) >= NimMinDigits

\* group(1) of the matches of re.finditer(pattern, s), searching from position from
RECURSIVE finditer(_, _)
finditer(s, from) ==
    LET starts == {i \in from..Len(s) : MatchesAt(s, i)}
    IN  IF starts = {} THEN << >>
        ELSE LET i == Min(starts)
                 r == NameRun(s, i + 1)
                 d == DigitRun(s, i + 1 + r)
                 n == IF d > NimMaxDigits THEN NimMaxDigits ELSE d
             IN  << SubSeq(s, i, i + r) >> \o finditer(s, i + r + n + 1)

KwTel == << 116, 101, 108 >>                            \* "tel"
KwTelDot == << 116, 101, 108, 46 >>                     \* "tel."
invalid_keywords ==
    { << 46, 99, 111, 109 >>,                           \* ".com"
      << 46, 99, 111, 46 >>,                            \* ".co."
      << 46, 105, 100 >>,                               \* ".id"
      << 121, 97, 104, 111, 111 >>,                     \* "yahoo"
      << 103, 109, 97, 105, 108 >>,                     \* "gmail"
      << 104, 111, 116, 109, 97, 105, 108 >>,           \* "hotmail"
      << 101, 109, 97, 105, 108 >> }                    \* "email"

\* re.search(r'[/\-]\s*\d', name)
HasPhoneFragment(name) ==
    \E i \in 1..Len(name) :
        /\ name[i] \in {SLASH, DASH}
        /\ \E j \in (i + 1)..Len(name) :
              /\ IsDigit(name[j])
              /\ \A k \in (i + 1)..(j - 1) : IsSpace(name[k])

\* the shortest name kept and the number of periods that rejects a name
MinNameLen == 3
MaxPeriods == 3

\* the filters without the test on the length of the name
KeepName_any_length(name) ==
    LET low == lower(name)
    IN  /\ ~Contains(name, << AT >>)
        /\ ~(low \in {KwTel, KwTelDot} \/ endswith(low, KwTelDot))
        /\ ~(\E kw \in invalid_keywords : Contains(low, kw))
        /\ ~HasPhoneFragment(name)
        /\ ~(count(name, DOT) >= MaxPeriods)
        /\ ~(2 * Cardinality({i \in 1..Len(name) : IsAlpha(name[i])}) < Len(name))

\* the filters of the match loop: TRUE iff the name is appended
KeepName(name) ==
    LET low == lower(name)
    IN  /\ ~Contains(name, << AT >>)
        /\ ~(low \in {KwTel, KwTelDot} \/ endswith(low, KwTelDot))
        /\ ~(\E kw \in invalid_keywords : Contains(low, kw))
        /\ ~HasPhoneFragment(name)
        /\ ~(Len(name) < MinNameLen \/ count(name, DOT) >= MaxPeriods)
        /\ ~(2 * Cardinality({i \in 1..Len(name) : IsAlpha(name[i])}) < Len(name))

extract_fullnames_from_txt(text) ==
    LET groups == finditer(text, 1)
        names == [i \in 1..Len(groups) |-> strip(groups[i])]
    IN  SelectSeq(names, KeepName)

-----------------------------------------------------------------------------
(* Cross-Validator: validate_csv_against_txt *)

TelPrefix == << 84, 101, 108, 46 >>                     \* "Tel."

\* the duplicate filter, with the names already appended in seen
RECURSIVE unique_from(_, _)
unique_from(names, seen) ==
    IF names = << >> THEN << >>
    ELSE LET name == Head(names)
         IN  IF name \notin seen \/ ~endswith(name, TelPrefix)
             THEN << name >> \o unique_from(Tail(names), seen \cup {name})
             ELSE unique_from(Tail(names), seen)

\* txt_fullnames_unique of a file text as read from disk
unique_names(text) == unique_from(extract_fullnames_from_txt(clean_text(text)), {})

\* the Fullname column of the rows read back, each stripped
csv_names(rows) == [i \in 1..Len(rows) |-> strip(rows[i][2])]

\* the comparison with the tests on the two lowercased names swapped for an
\* exact comparison
find_missing_exact(unique, csv_fullnames) ==
    LET recorded == {csv_fullnames[i] : i \in 1..Len(csv_fullnames)}
    IN  SelectSeq(unique, LAMBDA n : n \notin recorded)

\* the names of unique that no recorded name matches case-insensitively
find_missing(unique, csv_fullnames) ==
    LET csv_fullnames_lower == {lower(csv_fullnames[i]) : i \in 1..Len(csv_fullnames)}
    IN  SelectSeq(unique, LAMBDA n : lower(n) \notin csv_fullnames_lower)

\* the triple returned, (missing_names, total_txt, total_csv), given the
\* candidates kept by the duplicate filter
validate_csv_against_txt(unique, rows, readable) ==
    IF ~readable
    THEN << << >>, Len(unique), 0 >>
    ELSE << find_missing(unique, csv_names(rows)), Len(unique), Len(csv_names(rows)) >>

-----------------------------------------------------------------------------
(* Entry Segmenter and Structured Field Extractor *)

MaxLines == 7           \* more lines than this: "Too many lines"
MinLines == 4           \* fewer lines than this: "Too few lines", no record
NimMinLen == 8          \* identifier length outside [8, 15]: warning
NimMaxLen == 15
LongLineLimit == 200    \* a line longer than this: warning

\* raw_text.strip().split("\n\n")
segment(text) == split(strip(text), << NL, NL >>)

\* [line.strip() for line in entry.split("\n") if line.strip()]
entry_lines(entry) ==
    LET raw == split(entry, << NL >>)
    IN  SelectSeq([i \in 1..Len(raw) |-> strip(raw[i])], LAMBDA l : l # << >>)

\* next((l for l in lines if P(l)), "")
FirstLine(lines, P(_)) ==
    LET hits == {i \in 1..Len(lines) : P(lines[i])}
    IN  IF hits = {} THEN << >> ELSE lines[Min(hits)]

HasAt(l) == Contains(l, << AT >>)
StartsTel(l) == startswith(lower(l), KwTel)

\* nim.isdigit()
isdigit(s) == s # << >> /\ \A i \in 1..Len(s) : IsDigit(s[i])

\* any(c.isalpha() for c in s)
HasAlpha(s) == \E i \in 1..Len(s) : IsAlpha(s[i])

If(c, kind) == IF c THEN << kind >> ELSE << >>

\* email = next((l for l in lines if "@" in l), "")
email_of(lines) == FirstLine(lines, HasAt)

\* the line found by next((l for l in lines if l.lower().startswith("tel")), "")
phone_line(lines) == FirstLine(lines, StartsTel)

\* phone = phone.replace("Tel.", "").strip()
phone_of(lines) == strip(replace(phone_line(lines), TelPrefix, << >>))

\* the address with the lines joined without a separator
address_of_unspaced(lines) ==
    Flatten(SelectSeq(SubSeq(lines, 3, Len(lines)),
                      LAMBDA l : ~HasAt(l) /\ ~StartsTel(l)))

\* address_lines = [l for l in lines[2:] if "@" not in l and not l.lower().startswith("tel")]
\* address = " ".join(address_lines)
address_of(lines) ==
    join(SelectSeq(SubSeq(lines, 3, Len(lines)),
                   LAMBDA l : ~HasAt(l) /\ ~StartsTel(l)),
         << SP >>)

\* the warnings of an entry of at least MinLines lines that are printed and
\* counted in warnings_count, in the order of the checks
field_warnings(lines) ==
    LET nim == lines[2]
        email == email_of(lines)
        phone_cleaned == phone_of(lines)
        bare == replace(replace(replace(phone_cleaned, << DASH >>, << >>),
                                << SLASH >>, << >>), << SP >>, << >>)
    IN  If(~isdigit(nim), "NimNotNumeric")
        \o If(Len(nim) < NimMinLen \/ Len(nim) > NimMaxLen, "NimLength")
        \o (IF email = << >> THEN << "NoEmail" >>
            ELSE If(count(email, AT) > 1, "MultipleAt"))
        \o (IF phone_line(lines) = << >> THEN << "NoPhone" >>
            ELSE If(HasAlpha(bare), "PhoneLetters"))
        \o If(address_of(lines) = << >>, "NoAddress")
        \o If(\E i \in 1..Len(lines) : Len(lines[i]) > LongLineLimit, "LongLine")

\* parsed_data.append([nim, fullname, email, phone, address])
record_of(lines) ==
    << lines[2], lines[1], email_of(lines), phone_of(lines), address_of(lines) >>

\* the body with the too-few-lines warning printed but not counted
entry_body_uncounted(entry) ==
    LET lines == entry_lines(entry)
        tooMany == If(Len(lines) > MaxLines, "TooManyLines")
        counting == field_warnings(lines)
    IN  IF Len(lines) < MinLines
        THEN [prints |-> tooMany \o << "TooFewLines" >>, counted |-> 0, rows |-> << >>]
        ELSE [prints |-> tooMany \o counting,
              counted |-> Len(counting),
              rows |-> << record_of(lines) >>]

\* the body with an entry skipped when its identifier is not numeric
entry_body_skip(entry) ==
    LET lines == entry_lines(entry)
        tooMany == If(Len(lines) > MaxLines, "TooManyLines")
        counting == field_warnings(lines)
    IN  IF Len(lines) < MinLines
        THEN [prints |-> tooMany \o << "TooFewLines" >>, counted |-> 1, rows |-> << >>]
        ELSE [prints |-> tooMany \o counting,
              counted |-> Len(counting),
              rows |-> IF isdigit(lines[2]) THEN << record_of(lines) >> ELSE << >>]

\* one pass of the body of the entry loop over an entry: the warnings it
\* prints, the amount it adds to warnings_count and the rows it appends
entry_body(entry) ==
    LET lines == entry_lines(entry)
        tooMany == If(Len(lines) > MaxLines, "TooManyLines")
        counting == field_warnings(lines)
    IN  IF Len(lines) < MinLines
        THEN [prints |-> tooMany \o << "TooFewLines" >>, counted |-> 1, rows |-> << >>]
        ELSE [prints |-> tooMany \o counting,
              counted |-> Len(counting),
              rows |-> << record_of(lines) >>]

-----------------------------------------------------------------------------
(* Input texts *)

LName == << 74, 111, 32, 65 >>    \* "Jo A"
LNameLc == << 106, 111, 32, 97 >>    \* "jo a"
LName2 == << 65, 108, 32, 66 >>    \* "Al B"
LNameTel == << 84, 101, 108, 109, 97 >>    \* "Telma"
LNim == << 49, 50, 51, 52, 53, 54, 55, 56 >>    \* "12345678"
LNimAlpha == << 49, 50, 65, 66, 53, 54, 55, 56 >>    \* "12AB5678"
LNimShort == << 49, 50, 51, 52, 53, 54, 55 >>    \* "1234567"
LAddr == << 74, 108, 46, 32, 77, 32, 49 >>    \* "Jl. M 1"
LAddr2 == << 82, 84, 32, 50 >>    \* "RT 2"
LEmail == << 97, 64, 98, 46, 99 >>    \* "a@b.c"
LEmail2 == << 120, 64, 64, 121 >>    \* "x@@y"
LPhone == << 84, 101, 108, 46, 32, 48, 50, 49, 45, 53, 53, 53 >>    \* "Tel. 021-555"
LPhone2 == << 84, 101, 108, 46, 32, 49, 32, 84, 101, 108, 46, 32, 50 >>    \* "Tel. 1 Tel. 2"
\* a line of "#", one character longer than LongLineLimit
LLong == [i \in 1..(LongLineLimit + 1) |-> 35]
\* the number of missing names the report lists
PreviewCap == 10
\* a line with PreviewCap + 1 different names, each before an 8-digit number
LManyNames ==
    Flatten([i \in 1..(PreviewCap + 1) |-> << 65, 97, 96 + i, SP >> \o LNim \o << SP >>])

\* sequences over S of length at most n
SeqsUpTo(S, n) == UNION {[1..k -> S] : k \in 0..n}

\* fragments of text; joined by line breaks they give blocks separated by
\* runs of 2, 3, 4, ... line breaks, and leading and trailing runs
Fragments ==
    { << >>,                                            \* nothing: a blank line
      << NL, NL >>,                                     \* three blank lines
      << SP >>,                                         \* a whitespace-only line
      join(<< LName, LNim >>, << NL >>),
      join(<< LAddr, LAddr2, LEmail, LPhone >>, << NL >>),
      join(<< LNameLc, LNimAlpha, LAddr, LEmail, LPhone >>, << NL >>) }

FragmentTexts == {join(items, << NL >>) : items \in SeqsUpTo(Fragments, MaxItems)}

\* single blocks: a name line, an identifier line and up to MaxTail more lines
HeadPool == { << LName, LNim >>, << LNameTel, LNim >>, << LName, LNimAlpha >> }
TailPool == {LAddr, LEmail, LPhone, LPhone2, LNameTel}
\* tails with a second "@" line and with the two long lines
SpecialTails ==
    { << LAddr, LEmail2, LPhone >>, << LAddr, LEmail, LEmail2, LPhone >>,
      << LLong >>, << LAddr, LEmail, LPhone, LLong >>,
      << LManyNames >>, << LAddr, LEmail, LManyNames, LPhone >> }

BlockTexts ==
    {join(h \o t, << NL >>) :
        h \in HeadPool, t \in SeqsUpTo(TailPool, MaxTail) \cup SpecialTails}

\* lines for the name scanner: a name-like text before an 8-digit number
LScanTel == << 84, 101, 108, 32, 49, 50, 51, 52, 53, 54, 55, 56 >>    \* "Tel 12345678"
LScanTelDot == << 65, 32, 84, 101, 108, 46, 32, 49, 50, 51, 52, 53, 54, 55, 56 >>    \* "A Tel. 12345678"
LScanPatel == << 80, 97, 116, 101, 108, 32, 49, 50, 51, 52, 53, 54, 55, 56 >>    \* "Patel 12345678"
LScanShort == << 74, 111, 49, 50, 51, 52, 53, 54, 55, 56 >>    \* "Jo12345678"
LScanDots == << 65, 46, 66, 46, 67, 46, 32, 49, 50, 51, 52, 53, 54, 55, 56 >>    \* "A.B.C. 12345678"
LScanSparse == << 65, 32, 46, 32, 46, 32, 49, 50, 51, 52, 53, 54, 55, 56 >>    \* "A . . 12345678"
LScanMail == << 97, 64, 103, 109, 97, 105, 108, 46, 99, 111, 109, 32, 49, 50, 51, 52, 53, 54, 55, 56 >>    \* "a@gmail.com 12345678"
LScanName == << 74, 111, 32, 65, 32, 49, 50, 51, 52, 53, 54, 55, 56 >>    \* "Jo A 12345678"
LPatel == << 80, 97, 116, 101, 108 >>    \* "Patel"
ScanLines ==
    << LScanTel, LScanTelDot, LScanPatel, LScanShort, LScanDots, LScanSparse,
       LScanMail, LScanName >>
\* up to MaxScan of the lines, and all of them
ScanTexts ==
    {join(items, << NL >>) : items \in SeqsUpTo(Range(ScanLines), MaxScan)}
        \cup {join(ScanLines, << NL >>)}

\* two candidates, one of them recorded in another case
ExampleTexts ==
    { join(<< LName, LNim, << >>, LName2, LNim, << >>,
              LNameLc, LNimShort, LAddr, LEmail, LPhone >>, << NL >>) }

Texts == FragmentTexts \cup BlockTexts \cup ExampleTexts \cup ScanTexts

\* the runs of the script: one file with any text, or two files
TwoFileTexts ==
    { join(<< LName, LNim >>, << NL >>),
      join(<< LName, LNim, LAddr, LEmail, LPhone >>, << NL >>),
      join(<< LNameLc, LNimAlpha, LAddr, LAddr >>, << NL >>) }

FileLists ==
    {<< t >> : t \in Texts} \cup {<< t, u >> : t \in TwoFileTexts, u \in TwoFileTexts}

-----------------------------------------------------------------------------
(* The script *)

NoReport == [verdict |-> "none", shown |-> << >>, more |-> 0, entries |-> "none"]

Idle ==
    /\ file_no = 0
    /\ raw_text = << >>
    /\ entries = << >>
    /\ idx = 0
    /\ parsed_data = << >>
    /\ warnings_count = 0
    /\ printed = << >>
    /\ total_line = << >>
    /\ output_csv = << >>
    /\ csv_readable = TRUE
    /\ txt_fullnames = << >>
    /\ txt_fullnames_unique = << >>
    /\ missing_names = << >>
    /\ total_txt = 0
    /\ total_csv = 0
    /\ report = NoReport
    /\ results = << >>

\* pdf-page-remover.py is not run
NoPdf ==
    /\ page_spec = << >>
    /\ n_pages = 0
    /\ page_numbers = << >>
    /\ removed_pdf = << >>
    /\ kept_pdf = << >>

Init ==
    /\ txt_files \in FileLists
    /\ pc = "next_file"
    /\ Idle
    /\ norm_in = << >>
    /\ norm_out = << >>
    /\ NoPdf

\* the start of a file with warnings_count left as the previous file left it
BeginFile_keep_count ==
    /\ pc = "next_file"
    /\ file_no < Len(txt_files)
    /\ raw_text' = clean_text(txt_files[file_no + 1])
    /\ entries' = segment(raw_text')
    /\ parsed_data' = << >>
    /\ warnings_count' = warnings_count
    /\ printed' = << >>
    /\ total_line' = << >>
    /\ idx' = 0
    /\ pc' = "entries"
    /\ UNCHANGED << txt_files, file_no, output_csv, csv_readable,
                    txt_fullnames, txt_fullnames_unique, missing_names, total_txt, total_csv,
                    report, results, norm_in, norm_out, pdf_vars >>

\* for file_path in txt_files: read, normalise, segment, reset the per-file state
BeginFile ==
    /\ pc = "next_file"
    /\ file_no < Len(txt_files)
    /\ raw_text' = clean_text(txt_files[file_no + 1])
    /\ entries' = segment(raw_text')
    /\ parsed_data' = << >>
    /\ warnings_count' = 0
    /\ printed' = << >>
    /\ total_line' = << >>
    /\ idx' = 0
    /\ pc' = "entries"
    /\ UNCHANGED << txt_files, file_no, output_csv, csv_readable,
                    txt_fullnames, txt_fullnames_unique, missing_names, total_txt, total_csv,
                    report, results, norm_in, norm_out, pdf_vars >>

\* one iteration of: for idx, entry in enumerate(entries, 1)
ProcessEntry ==
    /\ pc = "entries"
    /\ idx < Len(entries)
    /\ LET out == entry_body(entries[idx + 1])
       IN  /\ printed' = printed \o [k \in 1..Len(out.prints) |->
                                        [entry |-> idx + 1, kind |-> out.prints[k]]]
           /\ warnings_count' = warnings_count + out.counted
           /\ parsed_data' = parsed_data \o out.rows
    /\ idx' = idx + 1
    /\ UNCHANGED << txt_files, file_no, pc, raw_text, entries, total_line,
                    output_csv, csv_readable, txt_fullnames, txt_fullnames_unique,
                    missing_names, total_txt, total_csv, report, results,
                    norm_in, norm_out, pdf_vars >>

\* after the entry loop: write the CSV, print the record and warning totals
SaveCsv ==
    /\ pc = "entries"
    /\ idx = Len(entries)
    /\ output_csv' = parsed_data
    /\ total_line' = IF warnings_count > 0 THEN << warnings_count >> ELSE << >>
    /\ pc' = "validate"
    /\ UNCHANGED << txt_files, file_no, raw_text, entries, idx, parsed_data,
                    warnings_count, printed, csv_readable, txt_fullnames, txt_fullnames_unique,
                    missing_names, total_txt, total_csv, report, results,
                    norm_in, norm_out, pdf_vars >>

\* missing_names, total_txt, total_csv = validate_csv_against_txt(file_path, output_csv);
\* whether the CSV can be opened and read is up to the file system
Validate ==
    /\ pc = "validate"
    /\ LET found == extract_fullnames_from_txt(clean_text(txt_files[file_no + 1]))
           unique == unique_from(found, {})
       IN  \E readable \in BOOLEAN :
              LET res == validate_csv_against_txt(unique, output_csv, readable)
              IN  /\ csv_readable' = readable
                  /\ txt_fullnames' = found
                  /\ txt_fullnames_unique' = unique
                  /\ missing_names' = res[1]
                  /\ total_txt' = res[2]
                  /\ total_csv' = res[3]
    /\ pc' = "report"
    /\ UNCHANGED << txt_files, file_no, raw_text, entries, idx, parsed_data,
                    warnings_count, printed, total_line, output_csv, report, results,
                    norm_in, norm_out, pdf_vars >>

\* the report with the preview cut at 9 names instead of 10
validation_report_short(missing, n_txt, n_csv) ==
    [verdict |-> IF missing # << >> THEN "FAILED" ELSE "PASSED",
     shown |-> SubSeq(missing, 1, IF Len(missing) < PreviewCap - 1
                                  THEN Len(missing) ELSE PreviewCap - 1),
     more |-> IF Len(missing) > PreviewCap THEN Len(missing) - PreviewCap ELSE 0,
     entries |-> IF n_csv > n_txt THEN "MORE"
                 ELSE IF n_csv < n_txt THEN "FEWER" ELSE "none"]

\* the validation report: verdict, the names listed (missing_names[:10]), the
\* "... and n more" count (0: line not printed), the MORE/FEWER entries warning
validation_report(missing, n_txt, n_csv) ==
    [verdict |-> IF missing # << >> THEN "FAILED" ELSE "PASSED",
     shown |-> SubSeq(missing, 1, IF Len(missing) < PreviewCap
                                  THEN Len(missing) ELSE PreviewCap),
     more |-> IF Len(missing) > PreviewCap THEN Len(missing) - PreviewCap ELSE 0,
     entries |-> IF n_csv > n_txt THEN "MORE"
                 ELSE IF n_csv < n_txt THEN "FEWER" ELSE "none"]

\* the report is printed; the CSV of the file stays in OUTPUT_DIR
Report ==
    /\ pc = "report"
    /\ report' = validation_report(missing_names, total_txt, total_csv)
    /\ results' = Append(results, [rows |-> output_csv,
                                   total_line |-> total_line,
                                   readable |-> csv_readable,
                                   validation |-> << missing_names, total_txt, total_csv >>,
                                   report |-> report'])
    /\ file_no' = file_no + 1
    /\ pc' = "next_file"
    /\ UNCHANGED << txt_files, raw_text, entries, idx, parsed_data,
                    warnings_count, printed, total_line, output_csv,
                    csv_readable, txt_fullnames, txt_fullnames_unique, missing_names,
                    total_txt, total_csv, norm_in, norm_out, pdf_vars >>

\* print(f"[FINISHED] Processed {len(txt_files)} file(s)")
Finish ==
    /\ pc = "next_file"
    /\ file_no = Len(txt_files)
    /\ pc' = "finished"
    /\ UNCHANGED << txt_files, file_no, raw_text, entries, idx, parsed_data,
                    warnings_count, printed, total_line, output_csv,
                    csv_readable, txt_fullnames, txt_fullnames_unique, missing_names,
                    total_txt, total_csv, report, results, norm_in, norm_out, pdf_vars >>

Next == BeginFile \/ ProcessEntry \/ SaveCsv \/ Validate \/ Report \/ Finish

Spec == Init /\ [][Next]_vars

-----------------------------------------------------------------------------
(* The normaliser run on its own *)

\* the characters of the texts: the substituted ones, their substitutes and
\* two ordinary ones
CleanAlphabet == Artifacts \cup {DASH, APOSTROPHE, QUOTE, 97, NL}

InitClean ==
    /\ norm_in \in SeqsUpTo(CleanAlphabet, MaxCleanLen)
    /\ norm_out = << >>
    /\ txt_files = << >>
    /\ pc = "clean"
    /\ Idle
    /\ NoPdf

\* text = clean_text(text), run on the previous output
CleanStep ==
    /\ pc = "clean"
    /\ Len(norm_out) < 2
    /\ norm_out' = Append(norm_out,
                          clean_text(IF norm_out = << >> THEN norm_in
                                     ELSE norm_out[Len(norm_out)]))
    /\ UNCHANGED << txt_files, file_no, pc, raw_text, entries, idx, parsed_data,
                    warnings_count, printed, total_line, output_csv,
                    csv_readable, txt_fullnames, txt_fullnames_unique, missing_names,
                    total_txt, total_csv, report, results, norm_in, pdf_vars >>

NextClean == CleanStep

SpecClean == InitClean /\ [][NextClean]_vars

-----------------------------------------------------------------------------
(* pdf-page-remover.py: the page specification and the pages written *)

\* int(s) does not raise: s is a run of digits with whitespace around it
IsNumeral(s) ==
    LET t == strip(s)
    IN  t # << >> /\ \A i \in 1..Len(t) : IsDigit(t[i])

RECURSIVE NumeralValue(_)
NumeralValue(t) ==
    IF t = << >> THEN 0
    ELSE 10 * NumeralValue(SubSeq(t, 1, Len(t) - 1)) + (t[Len(t)] - 48)

\* int(s), for s with IsNumeral(s)
int(s) == NumeralValue(strip(s))

\* sorted(list(pages))
RECURSIVE sorted(_)
sorted(S) == IF S = {} THEN << >> ELSE << Min(S) >> \o sorted(S \ {Min(S)})

\* one pass of the loop over the parts: whether it raises, and the pages it
\* adds to the set
part_pages(p) ==
    LET part == strip(p)
    IN  IF Contains(part, << DASH >>)
        THEN LET ends == split(part, << DASH >>)
             IN  IF Len(ends) # 2 \/ ~IsNumeral(ends[1]) \/ ~IsNumeral(ends[2])
                 THEN [raised |-> TRUE, pages |-> {}]
                 ELSE [raised |-> FALSE,
                       pages |-> (int(ends[1]) - 1)..(int(ends[2]) - 1)]
        ELSE IF ~IsNumeral(part)
             THEN [raised |-> TRUE, pages |-> {}]
             ELSE [raised |-> FALSE, pages |-> {int(part) - 1}]

\* parse_page_spec(spec): the list returned, or raised (a ValueError)
parse_page_spec(spec) ==
    LET parts == split(spec, << COMMA >>)
        each == {part_pages(parts[i]) : i \in 1..Len(parts)}
    IN  IF \E r \in each : r.raised
        THEN [raised |-> TRUE, pages |-> << >>]
        ELSE [raised |-> FALSE, pages |-> sorted(UNION {r.pages : r \in each})]

\* the pages of a PDF of n pages, in document order
document(n) == [i \in 1..n |-> i - 1]

\* remove_pages: the pages added to the writer and written
remove_pages(n, numbers) ==
    [raised |-> FALSE,
     pages |-> SelectSeq(document(n), LAMBDA page_num : page_num \notin Range(numbers))]

\* pdf_reader.pages[page_num] for page_num < n: an index below 0 counts from
\* the end
page_at(n, page_num) == IF page_num < 0 THEN n + page_num ELSE page_num

\* keep_pages: the pages added to the writer and written; an index below -n
\* raises (an IndexError) before the file is opened
keep_pages(n, numbers) ==
    LET read == SelectSeq(numbers, LAMBDA page_num : page_num < n)
    IN  IF \E k \in 1..Len(read) : read[k] < 0 - n
        THEN [raised |-> TRUE, pages |-> << >>]
        ELSE [raised |-> FALSE,
              pages |-> [k \in 1..Len(read) |-> page_at(n, read[k])]]

\* the characters of the page specifications
SpecAlphabet == {48, 49, 50, COMMA, DASH, SP}

InitPages ==
    /\ page_spec \in SeqsUpTo(SpecAlphabet, MaxSpecLen)
    /\ n_pages \in 0..MaxPages
    /\ page_numbers = << >>
    /\ removed_pdf = << >>
    /\ kept_pdf = << >>
    /\ pc = "parse"
    /\ txt_files = << >>
    /\ Idle
    /\ norm_in = << >>
    /\ norm_out = << >>

\* page_numbers = parse_page_spec(page_spec); an exception ends the script
ParsePageSpec ==
    /\ pc = "parse"
    /\ page_numbers' = << parse_page_spec(page_spec) >>
    /\ pc' = IF page_numbers'[1].raised THEN "exit" ELSE "process"
    /\ UNCHANGED << txt_vars, page_spec, n_pages, removed_pdf, kept_pdf >>

\* the script run in remove mode on the PDF
RemovePages ==
    /\ pc = "process"
    /\ removed_pdf = << >>
    /\ removed_pdf' = << remove_pages(n_pages, page_numbers[1].pages) >>
    /\ UNCHANGED << pc, txt_vars, page_spec, n_pages, page_numbers, kept_pdf >>

\* the script run with --keep on the same PDF
KeepPages ==
    /\ pc = "process"
    /\ kept_pdf = << >>
    /\ kept_pdf' = << keep_pages(n_pages, page_numbers[1].pages) >>
    /\ UNCHANGED << pc, txt_vars, page_spec, n_pages, page_numbers, removed_pdf >>

NextPages == ParsePageSpec \/ RemovePages \/ KeepPages

SpecPages == InitPages /\ [][NextPages]_vars

-----------------------------------------------------------------------------
(* Properties *)

\* the lines of the i-th entry of the current file
LinesOf(i) == entry_lines(entries[i])
\* the lines of every entry of es
RECURSIVE EachLines(_)
EachLines(es) ==
    IF es = << >> THEN << >> ELSE << entry_lines(Head(es)) >> \o EachLines(Tail(es))
\* the lines of every entry of the current file
AllLines == EachLines(entries)
\* the i-th entry has fewer than 4 non-empty lines
Short(i) == Len(LinesOf(i)) < MinLines
\* the number of entries up to the i-th that have at least 4 lines, given
\* the lines of the entries
RowNo(all, i) == Cardinality({j \in 1..i : Len(all[j]) >= MinLines})
\* the warnings printed for the i-th entry
WarningsOf(i) == {w \in Range(printed) : w.entry = i}
\* validate_csv_against_txt has returned for the current file
Validated == pc = "report"
\* the report of a file has been printed
Reported == pc = "next_file" /\ file_no > 0

\* C1: when the CSV cannot be read, totalRecorded is 0 and missingNames holds
\* every deduplicated candidate, so that a file with a candidate fails validation.
C1_UnreadableAllMissing ==
    (Validated /\ ~csv_readable) =>
        /\ total_csv = 0
        /\ missing_names = txt_fullnames_unique

\* C2: the deduplicated sequence holds each name that does not end with "Tel."
\* at most once, and totalScanned is its length.
C2_NoDuplicateNames ==
    Validated =>
        /\ \A i, j \in 1..Len(txt_fullnames_unique) :
              (i < j /\ txt_fullnames_unique[i] = txt_fullnames_unique[j])
                  => endswith(txt_fullnames_unique[i], TelPrefix)
        /\ total_txt = Len(txt_fullnames_unique)

\* the number of blocks of text that have a non-blank line, where blocks are
\* separated by empty lines (runs of two or more line breaks): the lines with
\* content that no earlier line with content shares a block with
NonEmptyBlocks(text) ==
    LET L == split(text, << NL >>)
        HasContent(i) == strip(L[i]) # << >>
    IN  Cardinality({i \in 1..Len(L) :
            /\ HasContent(i)
            /\ \A k \in 1..(i - 1) :
                  HasContent(k) => \E j \in (k + 1)..(i - 1) : L[j] = << >>})

\* C3: a text of N non-empty blocks separated by runs of two or more line
\* breaks gives exactly N entries, and no entry without a non-empty line.
C3_ExactlyNBlocks ==
    pc = "entries" =>
        /\ Len(entries) = NonEmptyBlocks(raw_text)
        /\ \A i \in 1..Len(entries) : LinesOf(i) # << >>

\* C4: an entry with fewer than 4 non-empty lines appends no row and adds at
\* least one warning to warnings_count, and the entries after it are handled.
C4_ShortBlockSkipped ==
    LET all == AllLines
        short == {i \in 1..idx : Len(all[i]) < MinLines}
    IN  /\ \A i \in short : [entry |-> i, kind |-> "TooFewLines"] \in Range(printed)
        /\ warnings_count >= Cardinality(short)
        /\ Len(parsed_data) = idx - Cardinality(short)
        /\ pc \in {"validate", "report"} => idx = Len(entries)

\* a short entry was skipped with a counted warning and a later entry gave a row
C4_Witness ==
    /\ pc = "validate"
    /\ \E i, j \in 1..Len(entries) : i < j /\ Short(i) /\ ~Short(j)
    /\ warnings_count >= 1
    /\ Len(parsed_data) >= 1

\* C5: every entry with at least 4 non-empty lines appends exactly one row,
\* whatever warnings it raises, with fullName = line 0 and identifier = line 1
\* as they are; rows are in entry order, one per such entry.
C5_OneRecordPerBlock ==
    LET all == AllLines
    IN  /\ Len(parsed_data) = RowNo(all, idx)
        /\ \A i \in 1..idx :
              Len(all[i]) >= MinLines =>
                  /\ parsed_data[RowNo(all, i)][1] = all[i][2]
                  /\ parsed_data[RowNo(all, i)][2] = all[i][1]
                  /\ ~isdigit(all[i][2])
                        => [entry |-> i, kind |-> "NimNotNumeric"] \in Range(printed)

\* the identifier "12AB5678" was warned about and recorded, as the second row
C5_Witness ==
    /\ Len(parsed_data) >= 2
    /\ \E i \in 1..idx :
          /\ ~Short(i)
          /\ RowNo(AllLines, i) = 2
          /\ LinesOf(i)[2] = LNimAlpha
          /\ parsed_data[2][1] = LNimAlpha
          /\ [entry |-> i, kind |-> "NimNotNumeric"] \in Range(printed)

\* C6: an entry with more than 7 non-empty lines appends a row and adds at
\* least one warning to warnings_count; the total equals the number of
\* warnings printed.
C6_TooManyCounted ==
    /\ warnings_count = Len(printed)
    /\ \A i \in 1..idx :
          Len(LinesOf(i)) > MaxLines =>
              /\ RowNo(AllLines, i) <= Len(parsed_data)
              /\ warnings_count >= 1

\* "Tel." followed by digits, "-", "/" and spaces only
IsTelLine(l) ==
    /\ startswith(l, TelPrefix)
    /\ \A k \in (Len(TelPrefix) + 1)..Len(l) : IsDigit(l[k]) \/ l[k] \in {DASH, SLASH, SP}

\* lines, with the email at index e and the phone at index t, is a block of
\* the described shape
Shaped(lines, e, t) ==
    /\ e \in 3..Len(lines) /\ t \in 3..Len(lines) /\ e # t
    /\ count(lines[e], AT) = 1 /\ IsTelLine(lines[t])
    /\ Len(lines) >= MinLines /\ Len(lines) <= MaxLines
    /\ \A i \in 1..Len(lines) : Len(lines[i]) <= LongLineLimit
    /\ isdigit(lines[2]) /\ Len(lines[2]) >= NimMinLen /\ Len(lines[2]) <= NimMaxLen
    /\ {i \in 1..Len(lines) : count(lines[i], AT) = 1} = {e}
    /\ {i \in 1..Len(lines) : IsTelLine(lines[i])} = {t}
    /\ \E a \in 3..Len(lines) : a \notin {e, t}

\* no line but the email contains "@", no line but the phone starts with "tel"
Unambiguous(lines, e, t) ==
    /\ \A i \in 1..Len(lines) : HasAt(lines[i]) => i = e
    /\ \A i \in 1..Len(lines) : StartsTel(lines[i]) => i = t

\* the lines from index i on, except those at the indices in skip
RECURSIVE Others(_, _, _)
Others(lines, i, skip) ==
    IF i > Len(lines) THEN << >>
    ELSE (IF i \in skip THEN << >> ELSE << lines[i] >>) \o Others(lines, i + 1, skip)

\* the record the claim describes
Described(lines, e, t) ==
    << lines[2], lines[1], lines[e],
       strip(SubSeq(lines[t], Len(TelPrefix) + 1, Len(lines[t]))),
       join(Others(lines, 3, {e, t}), << SP >>) >>

\* C7 as stated: every block of the described shape raises no warning and
\* gives the described record.
C7_WellFormedAsStated ==
    \A i \in 1..idx :
        LET lines == LinesOf(i)
        IN  \A e, t \in 3..Len(lines) :
                Shaped(lines, e, t) =>
                    /\ WarningsOf(i) = {}
                    /\ parsed_data[RowNo(AllLines, i)] = Described(lines, e, t)

\* C7: a well-formed block (4 to 7 lines, none longer than 200 characters, an
\* all-digit identifier of 8 to 15 digits, an address line, one line with one
\* "@", one line "Tel. <digits/-/ />") in which no other line contains "@" and
\* no other line starts, in lower case, with "tel", raises no warning and
\* gives the record {identifier: line 1, fullName: line 0, email: the "@"
\* line, phone: the Tel line without "Tel." and trimmed, address: the other
\* lines from index 2 joined by single spaces}.
C7_WellFormedRecord ==
    \A i \in 1..idx :
        LET lines == LinesOf(i)
        IN  \A e, t \in 3..Len(lines) :
                (Shaped(lines, e, t) /\ Unambiguous(lines, e, t)) =>
                    /\ WarningsOf(i) = {}
                    /\ parsed_data[RowNo(AllLines, i)] = Described(lines, e, t)

\* a well-formed block with two address lines has been recorded
C7_Witness ==
    \E i \in 1..idx : \E e, t \in 3..Len(LinesOf(i)) :
        /\ Len(LinesOf(i)) = 6
        /\ Shaped(LinesOf(i), e, t) /\ Unambiguous(LinesOf(i), e, t)
        /\ parsed_data[RowNo(AllLines, i)] = << LNim, LName, LEmail,
                                      << 48, 50, 49, 45, 53, 53, 53 >>,
                                      LAddr \o << SP >> \o LAddr2 >>

\* C8: missingNames is the subsequence of the candidates that no recorded
\* full name matches once both are lowercased; totalScanned and totalRecorded
\* are the lengths of the two lists.
C8_MissingNames ==
    (Validated /\ csv_readable) =>
        LET R == {output_csv[k][2] : k \in 1..Len(output_csv)}
            Missing(n) == \A r \in R : lower(n) # lower(r)
        IN  /\ missing_names = SelectSeq(txt_fullnames_unique, Missing)
            /\ total_txt = Len(txt_fullnames_unique)
            /\ total_csv = Len(output_csv)

\* the candidates "Jo A", "Al B" against the recorded "jo a": "Al B" missing
C8_Witness ==
    /\ Validated /\ csv_readable
    /\ txt_fullnames_unique = << LName, LName2 >>
    /\ {output_csv[k][2] : k \in 1..Len(output_csv)} = {LNameLc}
    /\ missing_names = << LName2 >>

\* C9: the verdict is PASSED iff missingNames is empty; a failed report lists
\* the first min(10, n) missing names in order and, when n > 10, a remainder
\* of n - 10.
C9_Verdict ==
    Reported =>
        LET n == Len(missing_names)
        IN  /\ report.verdict = "PASSED" <=> missing_names = << >>
            /\ report.verdict \in {"PASSED", "FAILED"}
            /\ report.verdict = "FAILED" =>
                  /\ Len(report.shown) = (IF n < PreviewCap THEN n ELSE PreviewCap)
                  /\ \A k \in 1..Len(report.shown) : report.shown[k] = missing_names[k]
                  /\ report.more = (IF n > PreviewCap THEN n - PreviewCap ELSE 0)
            /\ (total_txt = total_csv /\ missing_names = << >>)
                  => report.verdict = "PASSED"

\* a report with more than 10 missing names
C9_Witness ==
    /\ Reported
    /\ Len(missing_names) > PreviewCap
    /\ report.verdict = "FAILED"
    /\ report.more = Len(missing_names) - PreviewCap

\* C10: clean_text applied twice gives what it gives applied once; its output
\* has none of the substituted characters; the empty text gives the empty text.
C10_Idempotent ==
    /\ Len(norm_out) >= 1 =>
          /\ \A i \in 1..Len(norm_out[1]) : norm_out[1][i] \notin Artifacts
          /\ norm_in = << >> => norm_out[1] = << >>
    /\ Len(norm_out) = 2 => norm_out[2] = norm_out[1]

\* a text with a substituted character has been normalised twice
C10_Witness ==
    /\ Len(norm_out) = 2
    /\ \E i \in 1..Len(norm_in) : norm_in[i] \in Artifacts
    /\ norm_out[1] # norm_in

\* name stands in text at position p, before optional whitespace and a run of
\* at least 8 digits
NamedAt(text, name, p) ==
    /\ p + Len(name) - 1 <= Len(text)
    /\ text[p] = name[1]
    /\ SubSeq(text, p, p + Len(name) - 1) = name
    /\ \E q \in (p + Len(name))..Len(text) :
          /\ \A k \in (p + Len(name))..(q - 1) : IsSpace(text[k])
          /\ IsDigit(text[q])
          /\ DigitRun(text, q) >= NimMinDigits

\* the names stand in text one after the other, from position from on
RECURSIVE InMatchOrder(_, _, _)
InMatchOrder(text, names, from) ==
    IF names = << >> THEN TRUE
    ELSE LET at == {p \in from..Len(text) : NamedAt(text, Head(names), p)}
         IN  /\ at # {}
             /\ InMatchOrder(text, Tail(names), Min(at) + Len(Head(names)))

\* the filters on a returned name other than the one on the phone prefix
PassedFilters(n) ==
    /\ \A i \in 1..Len(n) : n[i] # AT
    /\ \A kw \in invalid_keywords : ~Contains(lower(n), kw)
    /\ Len(n) >= MinNameLen
    /\ count(n, DOT) < MaxPeriods
    /\ 2 * Cardinality({i \in 1..Len(n) : IsAlpha(n[i])}) >= Len(n)

\* C11 as stated: a returned name passed the filters and, in lower case,
\* neither is nor ends with "tel" or "tel."; names are in match order.
C11_FiltersAsStated ==
    Validated =>
        /\ \A k \in 1..Len(txt_fullnames) :
              LET n == txt_fullnames[k]
              IN  /\ PassedFilters(n)
                  /\ lower(n) \notin {KwTel, KwTelDot}
                  /\ ~endswith(lower(n), KwTel)
                  /\ ~endswith(lower(n), KwTelDot)
        /\ InMatchOrder(raw_text, txt_fullnames, 1)

\* C11: every name the scanner returns has no "@", is not "tel" or "tel." and
\* does not end with "tel." (in lower case), contains none of .com, .co.,
\* .id, yahoo, gmail, hotmail, email (in lower case), has at least 3
\* characters and fewer than 3 periods, and is at least 50% alphabetic; the
\* names are returned in the order of their match positions in the text.
C11_FiltersPassed ==
    Validated =>
        /\ \A k \in 1..Len(txt_fullnames) :
              LET n == txt_fullnames[k]
              IN  /\ PassedFilters(n)
                  /\ lower(n) \notin {KwTel, KwTelDot}
                  /\ ~endswith(lower(n), KwTelDot)
        /\ InMatchOrder(raw_text, txt_fullnames, 1)

\* of the eight candidates of a text, one for each filter, "Patel" and "Jo A"
\* are returned, in this order
C11_Witness ==
    /\ Validated
    /\ raw_text = join(ScanLines, << NL >>)
    /\ Len(finditer(raw_text, 1)) = Len(ScanLines)
    /\ txt_fullnames = << LPatel, LName >>

\* the rows the entry loop appends for the entries es, and the amount it adds
\* to warnings_count
RECURSIVE RowsOf(_)
RowsOf(es) ==
    IF es = << >> THEN << >> ELSE entry_body(Head(es)).rows \o RowsOf(Tail(es))
RECURSIVE CountOf(_)
CountOf(es) ==
    IF es = << >> THEN 0 ELSE entry_body(Head(es)).counted + CountOf(Tail(es))

\* what a run on the text alone writes and prints, given whether its CSV
\* can be read back
Alone(text, readable) ==
    LET es == segment(clean_text(text))
        rows == RowsOf(es)
        n == CountOf(es)
        res == validate_csv_against_txt(unique_names(text), rows, readable)
    IN  [rows |-> rows,
         total_line |-> IF n > 0 THEN << n >> ELSE << >>,
         readable |-> readable,
         validation |-> res,
         report |-> validation_report(res[1], res[2], res[3])]

\* C12: the records, the warning total and the validation result of a file
\* are those of its text alone, whatever files came before it; the files are
\* handled one by one in list order, and the run finishes after all of them.
C12_Independent ==
    /\ Len(results) = file_no
    /\ file_no <= Len(txt_files)
    /\ pc = "finished" => file_no = Len(txt_files)
    /\ pc \in {"entries", "validate", "report"} => file_no < Len(txt_files)
    /\ \A k \in 1..Len(results) :
          results[k] = Alone(txt_files[k], results[k].readable)

\* a run of two files has finished: the first gave a warning and no row, the
\* second a row and no warning
C12_Witness ==
    /\ pc = "finished"
    /\ Len(results) = 2
    /\ results[1].rows = << >> /\ results[1].total_line = << 1 >>
    /\ Len(results[2].rows) = 1 /\ results[2].total_line = << >>

\* the line without a leading "Tel.", if it has one
WithoutTelPrefix(l) ==
    IF startswith(l, TelPrefix) THEN SubSeq(l, Len(TelPrefix) + 1, Len(l)) ELSE l

\* C13: the phone of a row is the first line of the entry that starts, in
\* lower case, with "tel", without its leading "Tel." and trimmed, a later
\* "Tel." in the line being kept; with no such line the phone is empty and a
\* warning is printed.
C13_PhonePrefixOnly ==
    LET all == AllLines
    IN  \A i \in 1..idx :
            Len(all[i]) >= MinLines =>
                LET lines == all[i]
                    tels == {k \in 1..Len(lines) : StartsTel(lines[k])}
                    phone == parsed_data[RowNo(all, i)][4]
                IN  IF tels = {}
                    THEN /\ phone = << >>
                         /\ [entry |-> i, kind |-> "NoPhone"] \in Range(printed)
                    ELSE phone = strip(WithoutTelPrefix(lines[Min(tels)]))

\* C14: the address of a row is the join by single spaces, in order, of the
\* lines from index 2 on that are neither the email (the first line of the
\* entry with "@") nor start, in lower case, with "tel"; a second line with
\* "@" is part of it; a warning is printed iff the address is empty.
C14_AddressAllButEmail ==
    LET all == AllLines
    IN  \A i \in 1..idx :
            Len(all[i]) >= MinLines =>
                LET lines == all[i]
                    ats == {k \in 1..Len(lines) : HasAt(lines[k])}
                    email == IF ats = {} THEN << >> ELSE lines[Min(ats)]
                    kept == SelectSeq(SubSeq(lines, 3, Len(lines)),
                                      LAMBDA l : l # email /\ ~StartsTel(l))
                    address == parsed_data[RowNo(all, i)][5]
                IN  /\ address = join(kept, << SP >>)
                    /\ address = << >>
                          <=> [entry |-> i, kind |-> "NoAddress"] \in Range(printed)

\* q lists the elements of S in increasing order
Ascending(q, S) ==
    /\ Range(q) = S
    /\ \A i, j \in 1..Len(q) : i < j => q[i] < q[j]

\* C15: the list parse_page_spec returns is sorted and free of duplicates;
\* remove_pages writes the pages of [0, n) not in the list, in document
\* order; keep_pages writes the pages of the list that lie in [0, n); the two
\* outputs are disjoint and together hold every page of the document once.
C15_PagePartition ==
    (page_numbers # << >> /\ ~page_numbers[1].raised) =>
        LET P == page_numbers[1].pages
            doc == 0..(n_pages - 1)
        IN  /\ \A i, j \in 1..Len(P) : i < j => P[i] < P[j]
            /\ removed_pdf # << >> =>
                  /\ ~removed_pdf[1].raised
                  /\ Ascending(removed_pdf[1].pages, doc \ Range(P))
            /\ kept_pdf # << >> =>
                  /\ ~kept_pdf[1].raised
                  /\ Ascending(kept_pdf[1].pages, doc \cap Range(P))
            /\ (removed_pdf # << >> /\ kept_pdf # << >>) =>
                  /\ Range(removed_pdf[1].pages) \cap Range(kept_pdf[1].pages) = {}
                  /\ Range(removed_pdf[1].pages) \cup Range(kept_pdf[1].pages) = doc
                  /\ Len(removed_pdf[1].pages) + Len(kept_pdf[1].pages) = n_pages

====
